---------------------------- MODULE Spec2Model ----------------------------
(***************************************************************************)
(* Model of rag/setup-test/src/health_check.py: a runner that performs a   *)
(* fixed sequence of environment probes (interpreter version, five library *)
(* imports, the ollama CLI with an HTTP fallback, an in-memory sqlite      *)
(* round trip), collects one result record per probe and prints them.      *)
(*                                                                         *)
(* Strings that the program builds are sequences of chunks: a literal of   *)
(* the source is one chunk, and text that comes from the environment       *)
(* (stdout, stderr, response bodies, exception messages) is a sequence of  *)
(* one-character chunks, so that strip(), lower() and the substring test   *)
(* are computed character by character.                                    *)
(***************************************************************************)
EXTENDS Integers, Sequences, FiniteSets, TLC

VARIABLES
    pc,             \* position of main() (or of the function under test)
    results,        \* main(): the list `results`
    variant_ix,     \* check_ollama_cli: index of the loop over try_variants
    obs,            \* what the running check last observed of its environment
    ret,            \* the value the running check returns
    attempts,       \* history: the ollama CLI invocations made, in order
    http_requests,  \* history: number of GET requests issued
    seen,           \* history: the environment the finished checks met
    printed         \* the documents written to standard output

vars == <<pc, results, variant_ix, obs, ret, attempts, http_requests, seen, printed>>

---------------------------------------------------------------------------
(* Bounds of the model.                                                    *)

MaxLen == 2         \* longest environment text drawn character by character
MaxMajor == 4       \* largest interpreter major version drawn
MaxMinor == 11      \* largest interpreter minor version drawn
MaxMicro == 1       \* largest interpreter micro version drawn

---------------------------------------------------------------------------
(* Python strings.                                                         *)

Whitespace == {" ", "\t", "\n"}

RECURSIVE lstrip(_)
lstrip(s) == IF s # <<>> /\ Head(s) \in Whitespace THEN lstrip(Tail(s)) ELSE s

RECURSIVE rstrip(_)
rstrip(s) ==
    IF s # <<>> /\ s[Len(s)] \in Whitespace
    THEN rstrip(SubSeq(s, 1, Len(s) - 1))
    ELSE s

\* str.strip(): leading and trailing whitespace removed.
strip(s) == rstrip(lstrip(s))

Uppercase == <<"A","B","C","D","E","F","G","H","I","J","K","L","M",
               "N","O","P","Q","R","S","T","U","V","W","X","Y","Z">>
Lowercase == <<"a","b","c","d","e","f","g","h","i","j","k","l","m",
               "n","o","p","q","r","s","t","u","v","w","x","y","z">>

LowerChar(c) ==
    IF \E i \in 1..Len(Uppercase) : Uppercase[i] = c
    THEN Lowercase[CHOOSE i \in 1..Len(Uppercase) : Uppercase[i] = c]
    ELSE c

\* str.lower()
lower(s) == [i \in 1..Len(s) |-> LowerChar(s[i])]

\* `needle in haystack` on strings.
Contains(haystack, needle) ==
    \E i \in 0..(Len(haystack) - Len(needle)) :
        SubSeq(haystack, i + 1, i + Len(needle)) = needle

\* `a or b` on strings: the first operand unless it is empty.
StrOr(a, b) == IF a # <<>> THEN a ELSE b

\* All texts of at most n characters over an alphabet.
Texts(alphabet, n) == UNION {[1..k -> alphabet] : k \in 0..n}

---------------------------------------------------------------------------
(* Exceptions: a class name with the attributes the handlers read.         *)

Exc(cls, msg) == [cls |-> cls, msg |-> msg, code |-> 0, reason |-> <<>>]
NoExc == Exc("", <<>>)

\* The direct base class of each exception class the probes can raise.
ExcBase(c) ==
    CASE c = "FileNotFoundError"   -> "OSError"
      [] c = "PermissionError"     -> "OSError"
      [] c = "TimeoutError"        -> "OSError"
      [] c = "URLError"            -> "OSError"
      [] c = "HTTPError"           -> "URLError"
      [] c = "OSError"             -> "Exception"
      [] c = "TimeoutExpired"      -> "SubprocessError"
      [] c = "SubprocessError"     -> "Exception"
      [] c = "ModuleNotFoundError" -> "ImportError"
      [] c = "ImportError"         -> "Exception"
      [] c = "OperationalError"    -> "DatabaseError"
      [] c = "DatabaseError"       -> "sqlite3.Error"
      [] c = "sqlite3.Error"       -> "Exception"
      [] c = "ValueError"          -> "Exception"
      [] c = "AttributeError"      -> "Exception"
      [] c = "Exception"           -> "BaseException"
      [] OTHER                     -> "object"

RECURSIVE issubclass(_, _)
issubclass(c, k) ==
    IF c = k THEN TRUE
    ELSE IF c = "object" THEN FALSE
    ELSE issubclass(ExcBase(c), k)

\* Whether `except k` catches the exception e.
Catches(k, e) == issubclass(e.cls, k)

---------------------------------------------------------------------------
(* Result records and the outcome of a call.                               *)

format_result(name, ok, details) ==
    [name    |-> name,
     status  |-> IF ok THEN "ok" ELSE "error",
     details |-> details]

NoResult == [name |-> "", status |-> "", details |-> <<>>]

\* A call either returns a value or lets an exception propagate.
Returned(v) == [raised |-> FALSE, value |-> v, exc |-> NoExc]
Propagated(e) == [raised |-> TRUE, value |-> NoResult, exc |-> e]

---------------------------------------------------------------------------
(* check_python                                                            *)

MinVersion == <<3, 9>>

\* Python's ordering of tuples: lexicographic, a proper prefix is smaller.
RECURSIVE tuple_ge(_, _)
tuple_ge(a, b) ==
    IF b = <<>> THEN TRUE
    ELSE IF a = <<>> THEN FALSE
    ELSE IF Head(a) # Head(b) THEN Head(a) > Head(b)
    ELSE tuple_ge(Tail(a), Tail(b))

\* platform.python_version(): "major.minor.micro"
python_version(v) == <<ToString(v[1]), ".", ToString(v[2]), ".", ToString(v[3])>>

\* sys.version_info is (major, minor, micro, releaselevel, serial); the
\* comparison with (3, 9) is decided within the first three components.
VersionOk_MinorOnly(version_info) == version_info[2] >= MinVersion[2]

VersionOk(version_info) == tuple_ge(version_info, MinVersion)

check_python(version_info) ==
    LET version_str == python_version(version_info)
        ok == VersionOk(version_info)
        details == <<"Python ">> \o version_str \o <<" detected">>
    IN  format_result("python", ok,
            IF ~ok THEN details \o <<" (requires >= 3.9)">> ELSE details)

Versions == (2..MaxMajor) \X (0..MaxMinor) \X (0..MaxMicro)

\* check_python applied to every interpreter version of the bounded set.
InitPython ==
    /\ pc = "call_python"
    /\ obs \in {[kind |-> "version", version_info |-> v] : v \in Versions}
    /\ ret = NoResult
    /\ results = <<>>
    /\ variant_ix = 0
    /\ attempts = <<>>
    /\ http_requests = 0
    /\ seen = <<>>
    /\ printed = <<>>

CallCheckPython ==
    /\ pc = "call_python"
    /\ ret' = check_python(obs.version_info)
    /\ pc' = "returned"
    /\ UNCHANGED <<results, variant_ix, obs, attempts, http_requests, seen, printed>>

NextPython == CallCheckPython

SpecPython == InitPython /\ [][NextPython]_vars

\* C7: check_python reports "ok" exactly for versions with (major, minor) at
\* least (3, 9); the details always contain the detected version; and the
\* note "(requires >= 3.9)" is in the details exactly when the status is
\* "error".
C7_PythonVersionGate ==
    pc = "returned" =>
        LET v == obs.version_info IN
        /\ ret.name = "python"
        /\ ret.status \in {"ok", "error"}
        /\ ret.status = "ok" <=> (v[1] > 3 \/ (v[1] = 3 /\ v[2] >= 9))
        /\ Contains(ret.details, python_version(v))
        /\ Contains(ret.details, <<" (requires >= 3.9)">>) <=> ret.status = "error"

\* Version 3.8.0 was judged: an error, with the remediation note.
C7_Witness ==
    /\ pc = "returned"
    /\ obs.version_info = <<3, 8, 0>>
    /\ ret.status = "error"
    /\ Contains(ret.details, <<" (requires >= 3.9)">>)

---------------------------------------------------------------------------
(* check_import                                                            *)

\* Optional[str]: None, or a given string.
None == [given |-> FALSE, value |-> ""]
Some(s) == [given |-> TRUE, value |-> s]

DisplayOrModule_IgnoreDisplay(module_name, display_name) == module_name

\* `display_name or module_name`: None and "" are both falsy.
DisplayOrModule(module_name, display_name) ==
    IF display_name.given /\ display_name.value # ""
    THEN display_name.value
    ELSE module_name

\* import_module(): the module object (with or without __version__), or an
\* exception.
Module(has_version, version) ==
    [kind |-> "module", has_version |-> has_version, version |-> version, exc |-> NoExc]
ImportRaises(e) ==
    [kind |-> "raise", has_version |-> FALSE, version |-> <<>>, exc |-> e]

\* getattr(module, "__version__", "unknown")
getattr_version(module) ==
    IF module.has_version THEN module.version ELSE <<"unknown">>

\* line 49: `except Exception`
ImportHandler(e) == Catches("Exception", e)

VersionOf_Required(module) ==
    IF module.has_version THEN Returned(module.version)
    ELSE Propagated(Exc("AttributeError", <<"__version__">>))

\* line 47, inside the try block.
VersionOf(module) == Returned(getattr_version(module))

check_import(module_name, display_name, imported) ==
    LET display == DisplayOrModule(module_name, display_name)
        version == IF imported.kind = "module" THEN VersionOf(imported)
                   ELSE Propagated(imported.exc)
    IN  IF ~version.raised
        THEN Returned(format_result(display, TRUE,
                 <<"Import OK (version: ">> \o version.value \o <<")">>))
        ELSE IF ImportHandler(version.exc)
        THEN Returned(format_result(display, FALSE,
                 <<"Import failed: ">> \o version.exc.msg))
        ELSE Propagated(version.exc)

ModuleNames == {"langchain", "langchain_community", "dotenv"}
DisplayNames == {None, Some(""), Some("langchain"), Some("python-dotenv")}

VersionAlphabet == {"1", "."}
MessageAlphabet == {"e", " "}
ImportExceptions ==
    {Exc(c, m) : c \in {"ModuleNotFoundError", "ImportError", "ValueError"},
                 m \in Texts(MessageAlphabet, MaxLen)}

ImportOutcomes ==
    {Module(TRUE, v) : v \in Texts(VersionAlphabet, MaxLen)}
        \cup {Module(FALSE, <<>>)}
        \cup {ImportRaises(e) : e \in ImportExceptions}

\* check_import applied to every module name, display name and load outcome
\* of the bounded sets.
InitImport ==
    /\ pc = "call_import"
    /\ obs \in {[kind |-> "import", module_name |-> m, display_name |-> d, imported |-> i] :
                    m \in ModuleNames, d \in DisplayNames, i \in ImportOutcomes}
    /\ ret = NoResult
    /\ results = <<>>
    /\ variant_ix = 0
    /\ attempts = <<>>
    /\ http_requests = 0
    /\ seen = <<>>
    /\ printed = <<>>

CallCheckImport ==
    /\ pc = "call_import"
    /\ LET r == check_import(obs.module_name, obs.display_name, obs.imported)
       IN  IF r.raised
           THEN pc' = "aborted" /\ ret' = ret
           ELSE pc' = "returned" /\ ret' = r.value
    /\ UNCHANGED <<results, variant_ix, obs, attempts, http_requests, seen, printed>>

NextImport == CallCheckImport

SpecImport == InitImport /\ [][NextImport]_vars

\* C8: check_import always returns a result; it is ok exactly when the
\* module loaded, the details then hold the module's version attribute, or
\* "unknown" when it has none; on a load failure the details hold the
\* failure message; the name is the display name, or the module name when
\* no display name is given.
C8_ImportResult ==
    /\ pc # "aborted"
    /\ pc = "returned" =>
        LET i == obs.imported
            d == obs.display_name IN
        /\ ret.status = "ok" <=> i.kind = "module"
        /\ ret.status = "error" <=> i.kind = "raise"
        /\ (i.kind = "module" /\ i.has_version) =>
                ret.details = <<"Import OK (version: ">> \o i.version \o <<")">>
        /\ (i.kind = "module" /\ ~i.has_version) =>
                ret.details = <<"Import OK (version: ", "unknown", ")">>
        /\ i.kind = "raise" =>
                ret.details = <<"Import failed: ">> \o i.exc.msg
        /\ ~d.given => ret.name = obs.module_name
        /\ (d.given /\ d.value # "") => ret.name = d.value

\* A module without a version attribute was loaded under a defaulted name.
C8_Witness ==
    /\ pc = "returned"
    /\ obs.imported.kind = "module"
    /\ ~obs.imported.has_version
    /\ ~obs.display_name.given
    /\ ret = format_result(obs.module_name, TRUE, <<"Import OK (version: ", "unknown", ")">>)

---------------------------------------------------------------------------
(* _run_ollama_cmd and check_ollama_cli                                    *)

\* subprocess.run(): a completed process, or an exception.
Completed(returncode, stdout, stderr) ==
    [kind |-> "completed", returncode |-> returncode,
     stdout |-> stdout, stderr |-> stderr, exc |-> NoExc]
CmdRaises(e) ==
    [kind |-> "raised", returncode |-> 0, stdout |-> <<>>, stderr |-> <<>>, exc |-> e]

try_variants == << <<"--version">>, <<"version">> >>

\* sep.join(list)
RECURSIVE join(_, _)
join(sep, list) ==
    IF list = <<>> THEN <<>>
    ELSE IF Len(list) = 1 THEN <<list[1]>>
    ELSE <<list[1]>> \o sep \o join(sep, Tail(list))

UnknownCommand == <<"u","n","k","n","o","w","n"," ","c","o","m","m","a","n","d">>
UnknownFlag    == <<"u","n","k","n","o","w","n"," ","f","l","a","g">>

\* What one pass of the loop over try_variants decides.
StepReturn(v) == [act |-> "return", value |-> v, exc |-> NoExc]
StepContinue == [act |-> "continue", value |-> NoResult, exc |-> NoExc]
StepRaise(e) == [act |-> "raise", value |-> NoResult, exc |-> e]

SuccessDetails_NoPlaceholder(variant, proc) ==
    strip(StrOr(StrOr(proc.stdout, proc.stderr), <<>>))

\* line 88
SuccessDetails(variant, proc) ==
    StrOr(strip(StrOr(StrOr(proc.stdout, proc.stderr), <<>>)),
          <<"ollama ">> \o join(<<" ">>, variant) \o <<" OK">>)

IsUnrecognized_AnyFailure(proc) == TRUE

\* lines 91-92
IsUnrecognized(proc) ==
    LET stderr == lower(strip(StrOr(proc.stderr, <<>>)))
    IN  Contains(stderr, UnknownCommand) \/ Contains(stderr, UnknownFlag)

CmdHandler_OSErrorOnly(e) == Catches("OSError", e)

\* line 97: `except Exception`
CmdHandler(e) == Catches("Exception", e)

\* lines 85-98: the body of the loop, given what _run_ollama_cmd did.
variant_step(variant, run) ==
    IF run.kind = "completed"
    THEN IF run.returncode = 0
         THEN StepReturn(format_result("ollama_cli", TRUE, SuccessDetails(variant, run)))
         ELSE IF IsUnrecognized(run)
         THEN StepContinue
         ELSE StepReturn(format_result("ollama_cli", FALSE,
                  <<"Exit code ", ToString(run.returncode), ": ">> \o strip(run.stderr)))
    ELSE IF Catches("FileNotFoundError", run.exc)
    THEN StepReturn(format_result("ollama_cli", FALSE, <<"ollama CLI not found on PATH">>))
    ELSE IF CmdHandler(run.exc)
    THEN StepReturn(format_result("ollama_cli", FALSE, <<"Command error: ">> \o run.exc.msg))
    ELSE StepRaise(run.exc)

---------------------------------------------------------------------------
(* _probe_ollama_http                                                      *)

InvalidByte == "\\xff"

\* bytes.decode("utf-8", errors="ignore"): undecodable bytes are dropped.
RECURSIVE decode_ignore(_)
decode_ignore(bytes) ==
    IF bytes = <<>> THEN <<>>
    ELSE IF Head(bytes) = InvalidByte THEN decode_ignore(Tail(bytes))
    ELSE <<Head(bytes)>> \o decode_ignore(Tail(bytes))

\* What the server (or the network) does with the one GET.
Reply(status, reason, body, read_exc) ==
    [kind |-> "reply", status |-> status, reason |-> reason, body |-> body,
     exc |-> read_exc]
Unreachable(reason) ==
    [kind |-> "unreachable", status |-> 0, reason |-> reason, body |-> <<>>,
     exc |-> NoExc]
Fault(e) ==
    [kind |-> "fault", status |-> 0, reason |-> <<>>, body |-> <<>>, exc |-> e]

HTTPError(code, reason) ==
    [cls |-> "HTTPError", msg |-> <<"HTTP Error ", ToString(code), ": ">> \o reason,
     code |-> code, reason |-> reason]
URLError(reason) ==
    [cls |-> "URLError", msg |-> <<"<urlopen error ">> \o reason \o <<">">>,
     code |-> 0, reason |-> reason]

\* urllib.request.urlopen(): a response for a 2xx reply, HTTPError for any
\* other status, URLError when no connection is made.
urlopen(http) ==
    IF http.kind = "reply"
    THEN IF http.status >= 200 /\ http.status < 300
         THEN Returned(http)
         ELSE Propagated(HTTPError(http.status, http.reason))
    ELSE IF http.kind = "unreachable"
    THEN Propagated(URLError(http.reason))
    ELSE Propagated(http.exc)

\* resp.read().decode(...): the body, unless reading raises.
read_body(resp) ==
    IF resp.exc # NoExc THEN Propagated(resp.exc)
    ELSE Returned(decode_ignore(resp.body))

HttpHandler_Absent(e) == FALSE

\* line 77: `except Exception`
HttpHandler(e) == Catches("Exception", e)

HttpCheckName_Cli == "ollama_cli"

\* lines 69, 74, 76, 78: the name of every result of the probe.
HttpCheckName == "ollama_http"

_probe_ollama_http(http) ==
    LET resp == urlopen(http)
        body == IF resp.raised THEN resp ELSE read_body(resp.value)
        exc  == body.exc
    IN  IF ~body.raised
        THEN Returned(format_result(HttpCheckName, TRUE,
                 <<"HTTP ", ToString(resp.value.status), " ">> \o resp.value.reason
                     \o <<" @ /api/version: ">> \o StrOr(strip(body.value), <<"OK">>)))
        ELSE IF Catches("HTTPError", exc)
        THEN Returned(format_result(HttpCheckName, FALSE,
                 <<"HTTP error @ /api/version: ", ToString(exc.code), " ">> \o exc.reason))
        ELSE IF Catches("URLError", exc)
        THEN Returned(format_result(HttpCheckName, FALSE,
                 <<"HTTP connection error to http://localhost:11434: ">> \o exc.reason))
        ELSE IF HttpHandler(exc)
        THEN Returned(format_result(HttpCheckName, FALSE,
                 <<"HTTP probe error: ">> \o exc.msg))
        ELSE Propagated(exc)

---------------------------------------------------------------------------
(* check_sqlite                                                            *)

\* The calls inside the try block, in order.
SqliteSteps == <<"connect", "create", "insert", "select", "fetchone", "commit">>

\* fetchone(): None, or a row whose first column is the label.
NoRow == [found |-> FALSE, label |-> <<>>]
Row(label) == [found |-> TRUE, label |-> label]

\* The store: the step that raises (0: none), what it raises, and the row
\* the query returns.
Store(raises_at, e, row) == [raises_at |-> raises_at, exc |-> e, row |-> row]

InsertedLabel == <<"o", "k">>

RowOk_AnyRow(row) == row.found

\* line 110
RowOk(row) == row.found /\ row.label = InsertedLabel

SqliteHandler_None(e) == FALSE

\* line 112: `except Exception`
SqliteHandler(e) == Catches("Exception", e)

check_sqlite(db) ==
    IF db.raises_at \in 1..Len(SqliteSteps)
    THEN IF SqliteHandler(db.exc)
         THEN Returned(format_result("sqlite", FALSE, <<"SQLite error: ">> \o db.exc.msg))
         ELSE Propagated(db.exc)
    ELSE LET ok == RowOk(db.row)
         IN  Returned(format_result("sqlite", ok,
                 IF ok THEN <<"In-memory DB create/insert/select OK">>
                 ELSE <<"Unexpected query result">>))

SqliteExceptions ==
    {Exc(c, m) : c \in {"OperationalError", "DatabaseError"},
                 m \in Texts(MessageAlphabet, MaxLen)}

LabelAlphabet == {"o", "k"}

Stores ==
    {Store(k, e, NoRow) : k \in 1..Len(SqliteSteps), e \in SqliteExceptions}
        \cup {Store(0, NoExc, r) :
                r \in {NoRow} \cup {Row(l) : l \in Texts(LabelAlphabet, MaxLen)}}

\* check_sqlite applied to every behaviour of the store in the bounded set.
InitSqlite ==
    /\ pc = "call_sqlite"
    /\ obs \in {[kind |-> "store", db |-> d] : d \in Stores}
    /\ ret = NoResult
    /\ results = <<>>
    /\ variant_ix = 0
    /\ attempts = <<>>
    /\ http_requests = 0
    /\ seen = <<>>
    /\ printed = <<>>

CallCheckSqlite ==
    /\ pc = "call_sqlite"
    /\ LET r == check_sqlite(obs.db)
       IN  IF r.raised
           THEN pc' = "aborted" /\ ret' = ret
           ELSE pc' = "returned" /\ ret' = r.value
    /\ UNCHANGED <<results, variant_ix, obs, attempts, http_requests, seen, printed>>

NextSqlite == CallCheckSqlite

SpecSqlite == InitSqlite /\ [][NextSqlite]_vars

\* C9: check_sqlite always returns a result; it is ok exactly when no step
\* raised and the row fetched carries the inserted label "ok"; a missing or
\* different row gives "error" with "Unexpected query result"; an exception
\* at any step gives "error" with the exception's message in the details.
C9_SqliteRoundTrip ==
    /\ pc # "aborted"
    /\ pc = "returned" =>
        LET db == obs.db
            good == db.row.found /\ db.row.label = <<"o", "k">> IN
        /\ ret.name = "sqlite"
        /\ ret.status = "ok" <=> (db.raises_at = 0 /\ good)
        /\ (db.raises_at = 0 /\ good) =>
                ret.details = <<"In-memory DB create/insert/select OK">>
        /\ (db.raises_at = 0 /\ ~good) =>
                ret = format_result("sqlite", FALSE, <<"Unexpected query result">>)
        /\ db.raises_at # 0 =>
                ret = format_result("sqlite", FALSE, <<"SQLite error: ">> \o db.exc.msg)

\* A row was fetched whose label is not the inserted one, and the check
\* reported an error without raising.
C9_Witness ==
    /\ pc = "returned"
    /\ obs.db.raises_at = 0
    /\ obs.db.row.found
    /\ obs.db.row.label # <<"o", "k">>
    /\ ret.status = "error"

---------------------------------------------------------------------------
(* main(): the runner.                                                     *)

\* lines 123-127: the five dependency checks, in order.
IMPORTS == <<
    [module_name |-> "langchain",           display_name |-> Some("langchain")],
    [module_name |-> "langchain_community", display_name |-> Some("langchain-community")],
    [module_name |-> "langchain_ollama",    display_name |-> Some("langchain-ollama")],
    [module_name |-> "dotenv",              display_name |-> Some("python-dotenv")],
    [module_name |-> "pypdf",               display_name |-> Some("pypdf")] >>

\* The environments the runner is exercised in.
RunVersions == {<<3, 8, 0>>, <<3, 9, 0>>, <<4, 0, 0>>}

RunImports ==
    {Module(TRUE, <<"1", ".", "2">>),
     ImportRaises(Exc("ModuleNotFoundError", <<"No module named">>))}

OutAlphabet == {" ", "v"}
UnknownCommandMessage ==
    <<"E","r","r","o","r",":"," ","u","n","k","n","o","w","n"," ",
      "c","o","m","m","a","n","d","\n">>
UnknownFlagMessage ==
    <<" ","U","n","k","n","o","w","n"," ","F","l","a","g">>
OtherMessage == <<"u","n","k","n","o","w","n">>

CmdOutcomes ==
    {Completed(0, out, err) :
        out \in Texts(OutAlphabet, MaxLen),
        err \in Texts(OutAlphabet, MaxLen) \cup {UnknownFlagMessage}}
    \cup {Completed(rc, <<>>, err) :
        rc \in {1, 2},
        err \in Texts(OutAlphabet, MaxLen)
                    \cup {UnknownCommandMessage, UnknownFlagMessage, OtherMessage}}
    \cup {CmdRaises(Exc("FileNotFoundError", <<"No such file or directory: 'ollama'">>)),
          CmdRaises(Exc("PermissionError", <<"Permission denied: 'ollama'">>)),
          CmdRaises(Exc("TimeoutExpired", <<"Command timed out after 5 seconds">>))}

BodyAlphabet == {" ", "5", InvalidByte}

HttpOutcomes ==
    {Reply(st, <<"OK">>, body, NoExc) :
        st \in {200, 204}, body \in Texts(BodyAlphabet, MaxLen)}
    \cup {Reply(404, <<"Not Found">>, <<>>, NoExc),
          Reply(500, <<"Internal Server Error">>, <<>>, NoExc),
          Reply(200, <<"OK">>, <<"5">>, Exc("TimeoutError", <<"timed out">>)),
          Unreachable(<<"Connection refused">>),
          Fault(Exc("TimeoutError", <<"timed out">>)),
          Fault(Exc("ValueError", <<"unknown url type">>))}

RunStores ==
    {Store(0, NoExc, Row(<<"o", "k">>)),
     Store(0, NoExc, Row(<<"k", "o">>)),
     Store(0, NoExc, NoRow),
     Store(1, Exc("OperationalError", <<"unable to open database file">>), NoRow),
     Store(4, Exc("OperationalError", <<"no such table: healthcheck">>), NoRow)}

NoObs == [kind |-> "none"]

\* History: how an invocation of the CLI ended, judged on what the process
\* did and not on what the check made of it.
SaysUnrecognized(text) ==
    Contains(lower(text), UnknownCommand) \/ Contains(lower(text), UnknownFlag)

AttemptKind(run) ==
    IF run.kind = "raised"
    THEN IF run.exc.cls = "FileNotFoundError" THEN "notfound"
         ELSE IF run.exc.cls = "TimeoutExpired" THEN "timeout"
         ELSE "exception"
    ELSE IF run.returncode = 0 THEN "exit0"
    ELSE IF SaysUnrecognized(run.stderr) THEN "unrecognized"
    ELSE "nonzero"

Init ==
    /\ pc = "python"
    /\ results = <<>>
    /\ variant_ix = 1
    /\ obs = NoObs
    /\ ret = NoResult
    /\ attempts = <<>>
    /\ http_requests = 0
    /\ seen = [version |-> <<>>, imports |-> <<>>, db |-> Store(0, NoExc, NoRow)]
    /\ printed = <<>>

\* results.append(<call>): the value is appended, unless the call let an
\* exception through, which ends main() with a traceback.
MainAppend(outcome, next) ==
    IF outcome.raised
    THEN pc' = "aborted" /\ results' = results
    ELSE pc' = next /\ results' = Append(results, outcome.value)

\* line 120
RunCheckPython ==
    /\ pc = "python"
    /\ \E v \in RunVersions :
        /\ MainAppend(Returned(check_python(v)), "import")
        /\ seen' = [seen EXCEPT !.version = v]
    /\ UNCHANGED <<variant_ix, obs, ret, attempts, http_requests, printed>>

\* lines 123-127
RunCheckImport ==
    /\ pc = "import"
    /\ LET i == Len(results) IN
       \E imported \in RunImports :
        /\ MainAppend(check_import(IMPORTS[i].module_name, IMPORTS[i].display_name, imported),
                      IF i = Len(IMPORTS) THEN "ollama_cli" ELSE "import")
        /\ seen' = [seen EXCEPT !.imports = Append(@, imported.kind)]
    /\ UNCHANGED <<variant_ix, obs, ret, attempts, http_requests, printed>>

\* lines 84-98: one pass of the loop of check_ollama_cli.
TryVariant ==
    /\ pc = "ollama_cli"
    /\ variant_ix \in 1..Len(try_variants)
    /\ \E run \in CmdOutcomes :
        LET variant == try_variants[variant_ix]
            step == variant_step(variant, run) IN
        /\ obs' = run
        /\ attempts' = Append(attempts, [variant |-> variant, kind |-> AttemptKind(run)])
        /\ IF step.act = "return"
           THEN pc' = "ollama_return" /\ ret' = step.value /\ variant_ix' = variant_ix
           ELSE IF step.act = "continue"
           THEN /\ variant_ix' = variant_ix + 1
                /\ pc' = IF variant_ix + 1 > Len(try_variants)
                         THEN "ollama_http" ELSE "ollama_cli"
                /\ ret' = ret
           ELSE pc' = "aborted" /\ ret' = ret /\ variant_ix' = variant_ix
    /\ UNCHANGED <<results, http_requests, seen, printed>>

\* line 101: the loop ended without returning.
HttpFallback ==
    /\ pc = "ollama_http"
    /\ \E http \in HttpOutcomes :
        LET r == _probe_ollama_http(http) IN
        /\ obs' = http
        /\ http_requests' = http_requests + 1
        /\ IF r.raised
           THEN pc' = "aborted" /\ ret' = ret
           ELSE pc' = "ollama_return" /\ ret' = r.value
    /\ UNCHANGED <<results, variant_ix, attempts, seen, printed>>

\* line 130: the value check_ollama_cli returned is appended.
AppendOllama ==
    /\ pc = "ollama_return"
    /\ results' = Append(results, ret)
    /\ pc' = "sqlite"
    /\ obs' = NoObs
    /\ ret' = NoResult
    /\ UNCHANGED <<variant_ix, attempts, http_requests, seen, printed>>

\* line 131
RunCheckSqlite ==
    /\ pc = "sqlite"
    /\ \E db \in RunStores :
        /\ MainAppend(check_sqlite(db), "print")
        /\ seen' = [seen EXCEPT !.db = db]
    /\ UNCHANGED <<variant_ix, obs, ret, attempts, http_requests, printed>>

\* line 133
PrintReport ==
    /\ pc = "print"
    /\ printed' = Append(printed, [results |-> results])
    /\ pc' = "done"
    /\ UNCHANGED <<results, variant_ix, obs, ret, attempts, http_requests, seen>>

Next ==
    \/ RunCheckPython
    \/ RunCheckImport
    \/ TryVariant
    \/ HttpFallback
    \/ AppendOllama
    \/ RunCheckSqlite
    \/ PrintReport

Spec == Init /\ [][Next]_vars

---------------------------------------------------------------------------
(* Properties of the runner.                                               *)

Names(rs) == [i \in 1..Len(rs) |-> rs[i].name]

PastOllama == pc \in {"sqlite", "print", "done"}
LastAttempt == attempts[Len(attempts)]

\* C1: main() never ends with an exception and every step but the last has
\* a next step; at the print step and after it `results` holds exactly 8
\* records, named in the fixed order of the checks (the 7th by the phase of
\* the service check that produced it), each with status "ok" or "error";
\* and the printed report holds these records.
C1_EightRecords ==
    /\ pc # "aborted"
    /\ pc # "done" => ENABLED Next
    /\ pc \in {"print", "done"} =>
        /\ Len(results) = 8
        /\ Names(results) \in
               {<<"python", "langchain", "langchain-community", "langchain-ollama",
                  "python-dotenv", "pypdf", n, "sqlite">> : n \in {"ollama_cli", "ollama_http"}}
        /\ \A i \in 1..8 : results[i].status \in {"ok", "error"}
    /\ pc = "done" => printed = <<[results |-> results]>>

\* Every one of the 8 checks failed and the report was still printed.
C1_Witness ==
    /\ pc = "done"
    /\ Len(printed) = 1
    /\ Len(printed[1].results) = 8
    /\ \A i \in 1..8 : printed[1].results[i].status = "error"

\* C2: the CLI variants are invoked in order, a variant after the first only
\* when every earlier one exited non-zero with an "unrecognized" stderr; the
\* HTTP request is issued at most once and only after both variants were
\* skipped so; an invocation that ended any other way is the last one, no
\* HTTP request follows it, and the check has its result.
C2_FallbackChain ==
    /\ Len(attempts) <= Len(try_variants)
    /\ \A i \in 1..Len(attempts) :
        /\ attempts[i].variant = try_variants[i]
        /\ i < Len(attempts) => attempts[i].kind = "unrecognized"
    /\ http_requests <= 1
    /\ (http_requests = 1 \/ pc = "ollama_http") =>
        /\ Len(attempts) = 2
        /\ \A i \in 1..2 : attempts[i].kind = "unrecognized"
    /\ pc = "ollama_http" => http_requests = 0
    /\ (attempts # <<>> /\ LastAttempt.kind # "unrecognized") =>
        /\ http_requests = 0
        /\ pc \in {"ollama_return", "sqlite", "print", "done"}
        /\ pc = "ollama_return" => ret.name = "ollama_cli"
        /\ PastOllama => (Len(results) >= 7 /\ results[7].name = "ollama_cli")
    /\ (attempts # <<>> /\ LastAttempt.kind = "unrecognized") =>
        \/ pc = "ollama_cli" /\ Len(attempts) = 1
        \/ Len(attempts) = 2 /\ (pc = "ollama_http" \/ http_requests = 1)

\* Both variants were skipped as unrecognized and the HTTP probe was made.
C2_Witness ==
    /\ http_requests = 1
    /\ Len(attempts) = 2
    /\ pc = "ollama_return"

TimedOut == \E i \in 1..Len(attempts) : attempts[i].kind = "timeout"

\* C3: after a CLI invocation timed out, the service check has returned an
\* "error" result named ollama_cli, main() has not ended with an exception,
\* no HTTP request is made, and the sqlite check and the print follow.
C3_TimeoutIsCaught ==
    TimedOut =>
        /\ pc \in {"ollama_return", "sqlite", "print", "done"}
        /\ LastAttempt.kind = "timeout"
        /\ http_requests = 0
        /\ pc = "ollama_return" =>
                ret = format_result("ollama_cli", FALSE, <<"Command error: ">> \o obs.exc.msg)
        /\ PastOllama => (results[7].name = "ollama_cli" /\ results[7].status = "error")
        /\ pc # "done" => ENABLED Next
        /\ pc \in {"print", "done"} => (Len(results) = 8 /\ results[8].name = "sqlite")
        /\ pc = "done" => printed = <<[results |-> results]>>

\* The second variant timed out and the report was printed.
C3_Witness ==
    /\ Len(attempts) = 2
    /\ attempts[2].kind = "timeout"
    /\ pc = "done"
    /\ Len(printed) = 1

PythonMeetsMinimum ==
    seen.version[1] > 3 \/ (seen.version[1] = 3 /\ seen.version[2] >= 9)
AllDependenciesResolvable ==
    Len(seen.imports) = 5 /\ \A i \in 1..5 : seen.imports[i] = "module"
CliPresent ==
    attempts # <<>> /\ \A i \in 1..Len(attempts) : attempts[i].kind # "notfound"
CliVariantSucceeded ==
    attempts # <<>> /\ LastAttempt.kind = "exit0"
DatabaseOperational ==
    seen.db.raises_at = 0 /\ seen.db.row = Row(<<"o", "k">>)

AllOkInOrder ==
    /\ Len(printed) = 1
    /\ Len(printed[1].results) = 8
    /\ \A i \in 1..8 : printed[1].results[i].status = "ok"
    /\ Names(printed[1].results) =
           <<"python", "langchain", "langchain-community", "langchain-ollama",
             "python-dotenv", "pypdf", "ollama_cli", "sqlite">>

\* C4 as stated: with the five dependencies resolvable, the CLI present and
\* the database operational, the report has 8 entries, all "ok", named
\* python, langchain, langchain-community, langchain-ollama, python-dotenv,
\* pypdf, ollama_cli, sqlite.
C4_AsStated ==
    (pc = "done" /\ AllDependenciesResolvable /\ CliPresent /\ DatabaseOperational)
        => AllOkInOrder

\* C4 as amended: the same report, when moreover the interpreter is at least
\* 3.9 and a CLI variant exited with status 0.
C4_EndToEnd ==
    (pc = "done" /\ PythonMeetsMinimum /\ AllDependenciesResolvable
        /\ CliVariantSucceeded /\ DatabaseOperational)
        => AllOkInOrder

\* The all-ok report, its service check answered by the second variant.
C4_Witness ==
    /\ pc = "done"
    /\ PythonMeetsMinimum /\ AllDependenciesResolvable /\ DatabaseOperational
    /\ Len(attempts) = 2 /\ CliVariantSucceeded
    /\ AllOkInOrder

ExitedZero == pc = "ollama_return" /\ obs.kind = "completed" /\ obs.returncode = 0

\* C5 as stated: when a variant exits with status 0 the result is ok and its
\* details are stdout trimmed, or stderr trimmed if stdout is empty.
C5_AsStated ==
    ExitedZero =>
        /\ ret.status = "ok"
        /\ ret.details = IF obs.stdout = <<>> THEN strip(obs.stderr) ELSE strip(obs.stdout)

\* C5 as amended: the details are that trimmed text when it is not empty,
\* and otherwise the placeholder "ollama <variant> OK".
C5_SuccessDetails ==
    ExitedZero =>
        LET text == IF obs.stdout = <<>> THEN strip(obs.stderr) ELSE strip(obs.stdout)
        IN  /\ ret.name = "ollama_cli"
            /\ ret.status = "ok"
            /\ text # <<>> => ret.details = text
            /\ text = <<>> => ret.details = <<"ollama ", LastAttempt.variant[1], " OK">>

\* The second variant exited 0 with nothing on stdout and padded text on
\* stderr, which became the details.
C5_Witness ==
    /\ ExitedZero
    /\ Len(attempts) = 2
    /\ obs.stdout = <<>>
    /\ obs.stderr = <<"v", " ">>
    /\ ret.details = <<"v">>

HttpAnswered == pc = "ollama_return" /\ http_requests = 1
HttpSuccess ==
    obs.kind = "reply" /\ obs.status >= 200 /\ obs.status < 300 /\ obs.exc = NoExc

\* C6: once the HTTP request was issued the check returns a result and
\* main() goes on; the result is ok exactly when the reply is a 2xx whose
\* body was read, its details then holding the status and the decoded,
\* trimmed body; an HTTP error status, a failed connection and any other
\* exception give "error".
C6_HttpFallbackResult ==
    /\ http_requests = 1 => pc # "aborted"
    /\ HttpAnswered =>
        /\ ret.status = "ok" <=> HttpSuccess
        /\ ret.status = "error" <=> ~HttpSuccess
        /\ HttpSuccess =>
            /\ Contains(ret.details, <<"HTTP ", ToString(obs.status), " ">> \o obs.reason)
            /\ Contains(ret.details, strip(decode_ignore(obs.body)))
        /\ (obs.kind = "reply" /\ obs.status >= 400) =>
                Contains(ret.details, <<ToString(obs.status), " ">> \o obs.reason)
        /\ obs.kind = "unreachable" => Contains(ret.details, obs.reason)
        /\ (obs.kind = "fault" \/ (obs.kind = "reply" /\ obs.exc # NoExc)) =>
                ret.details = <<"HTTP probe error: ">> \o obs.exc.msg

\* The probe got a 200 whose body, decoded and trimmed, is in the details.
C6_Witness ==
    /\ HttpAnswered
    /\ obs.kind = "reply" /\ obs.status = 200
    /\ obs.body = <<" ", "5">>
    /\ ret.status = "ok"
    /\ Contains(ret.details, <<" @ /api/version: ", "5">>)

ServiceResult == IF pc = "ollama_return" THEN ret ELSE results[7]

\* C10: the service check's result is named "ollama_http" exactly when the
\* HTTP request was issued, and "ollama_cli" exactly when the check ended in
\* the CLI phase, whatever its status; the printed report carries that name
\* as its 7th.
C10_ServiceCheckName ==
    /\ (pc = "ollama_return" \/ PastOllama) =>
        /\ ServiceResult.name = "ollama_http" <=> http_requests = 1
        /\ ServiceResult.name = "ollama_cli" <=>
              (http_requests = 0
                 /\ LastAttempt.kind \in {"exit0", "nonzero", "notfound", "timeout", "exception"})
        /\ ServiceResult.name \in {"ollama_cli", "ollama_http"}
    /\ pc = "done" => printed[1].results[7].name = results[7].name

\* A failed HTTP probe is the 7th entry of the printed report.
C10_Witness ==
    /\ pc = "done"
    /\ http_requests = 1
    /\ printed[1].results[7].name = "ollama_http"
    /\ printed[1].results[7].status = "error"

=============================================================================
